---- MODULE Spec2Model ----
(***************************************************************************)
(* A model of hi_interview.task_manager: the Task entity (task.py) and the *)
(* TaskManager store (task_manager.py) with its tasks file and its options *)
(* file.  Strings are sequences of one-character strings, so that lower(), *)
(* split() and the `in` operator are computed and not assumed.  A date     *)
(* string is the separator together with its numeric tokens, which is what *)
(* dateutil's lexer hands to its resolver.                                 *)
(***************************************************************************)
EXTENDS Integers, Sequences, FiniteSets, TLC

VARIABLES
    tasks,         \* TaskManager.tasks: the in-memory list of Task objects
    options,       \* TaskManager.options["id"]; 0 stands for a missing key
    tasks_file,    \* the content of the tasks file on disk
    options_file,  \* options["id"] in the options file; 0: no file or no key
    issued,        \* history: the ids returned by successful add_task calls
    last,          \* history: the last call, its arguments and its outcome
    probe          \* history: a date string and its successive normalizations

vars == <<tasks, options, tasks_file, options_file, issued, last, probe>>

(***************************************************************************)
(* Bounds of the model.                                                    *)
(***************************************************************************)
\* the identifier counter is not advanced beyond MaxId
MaxId == 2
\* the years of the date strings that are tried
MinYear == 2003
MaxYear == 2004

(***************************************************************************)
(* Strings.                                                                *)
(***************************************************************************)
EmptyStr == << >>

Task1 == <<"T", "a", "s", "k", " ", "1">>
Task2 == <<"T", "a", "s", "k", " ", "2">>
Desc1 == <<"D", "1">>
Desc2 == <<"D", "2">>
Work == <<"W", "o", "r", "k">>
Home == <<"H", "o", "m", "e">>

\* an absent keyword argument (None) and a supplied one
None == << >>
Some(v) == <<v>>

(***************************************************************************)
(* Priority (an Enum): a member is told apart from the bare integer.       *)
(***************************************************************************)
LOW == [enum |-> TRUE, value |-> 3]
MEDIUM == [enum |-> TRUE, value |-> 2]
HIGH == [enum |-> TRUE, value |-> 1]

PriorityMembers == {LOW, MEDIUM, HIGH}

\* a bare integer that is not a member of the Enum
Raw(v) == [enum |-> FALSE, value |-> v]

\* Priority(value): the member with that value, or ValueError
PriorityByValue(value) ==
    IF \E p \in PriorityMembers : p.value = value
    THEN [ok |-> TRUE, member |-> CHOOSE p \in PriorityMembers : p.value = value]
    ELSE [ok |-> FALSE, member |-> Raw(value)]

\* bool(x) of a priority argument: an Enum member is truthy, an int is truthy
\* unless it is 0
Truthy(p) == p.enum \/ p.value # 0

(***************************************************************************)
(* Dates.                                                                  *)
(***************************************************************************)
DateStr(sep, n1, n2, n3) == [sep |-> sep, n |-> <<n1, n2, n3>>]
EmptyDate == [sep |-> "", n |-> << >>]

IsLeap(y) == (y % 4 = 0 /\ y % 100 # 0) \/ y % 400 = 0

DaysIn(m, y) ==
    IF m = 2 THEN (IF IsLeap(y) THEN 29 ELSE 28)
    ELSE IF m \in {4, 6, 9, 11} THEN 30 ELSE 31

\* parser.parse(date_str) with dayfirst and yearfirst left at their defaults:
\* three numeric tokens, the four-digit one being the year.  A leading year
\* gives year, month, day; otherwise a first number above 12 is the day, and
\* a first number of at most 12 is the month.
ParseDate(s) ==
    LET n == s.n
        ymd == IF n[1] > 31
               THEN [year |-> n[1], month |-> n[2], day |-> n[3]]
               ELSE IF n[1] > 12
               THEN [year |-> n[3], month |-> n[2], day |-> n[1]]
               ELSE [year |-> n[3], month |-> n[1], day |-> n[2]]
    IN  IF Len(n) # 3 THEN [ok |-> FALSE, year |-> 0, month |-> 0, day |-> 0]
        ELSE [ok |-> /\ ymd.month \in 1..12
                     /\ ymd.day \in 1..DaysIn(ymd.month, ymd.year),
              year |-> ymd.year, month |-> ymd.month, day |-> ymd.day]

\* date_obj.strftime("%d.%m.%Y")
FormatDate(d) == DateStr(".", d.day, d.month, d.year)

\* validate_and_format_date(date_str): the DD.MM.YYYY string, or ValueError
validate_and_format_date(date_str) ==
    LET date_obj == ParseDate(date_str)
    IN  IF date_obj.ok
        THEN [ok |-> TRUE, date |-> FormatDate(date_obj)]
        ELSE [ok |-> FALSE, date |-> date_str]

(***************************************************************************)
(* Task.                                                                   *)
(***************************************************************************)
\* Task.__init__ called without the status, which then is the default
NewTask_default_status(id, title, description, category, due_date, priority, status) ==
    LET date == validate_and_format_date(due_date)
    IN  [ok |-> date.ok,
         task |-> [id |-> id, title |-> title, description |-> description,
                   category |-> category, due_date |-> date.date,
                   priority |-> priority, status |-> FALSE]]

\* Task.__init__: the due date is normalized on construction (ValueError
\* "Invalid date" when it does not parse)
NewTask(id, title, description, category, due_date, priority, status) ==
    LET date == validate_and_format_date(due_date)
    IN  [ok |-> date.ok,
         task |-> [id |-> id, title |-> title, description |-> description,
                   category |-> category, due_date |-> date.date,
                   priority |-> priority, status |-> status]]

\* Task.complete written as a switch of the status
complete_switches_status(task) == [task EXCEPT !.status = ~task.status]

\* Task.complete
complete(task) == [task EXCEPT !.status = TRUE]

\* Task.update with the description assigned from the title argument
update_description_from_title(task, kw) ==
    LET supplied(f) == kw[f] # None /\ kw[f][1] # EmptyStr
        hasDate == kw.due_date # None /\ kw.due_date[1] # EmptyDate
        date == IF hasDate THEN validate_and_format_date(kw.due_date[1])
                ELSE [ok |-> TRUE, date |-> task.due_date]
        hasPriority == kw.priority # None /\ Truthy(kw.priority[1])
    IN  [ok |-> date.ok,
         task |->
            [id |-> task.id,
             title |-> IF supplied("title") THEN kw.title[1] ELSE task.title,
             description |-> IF supplied("title") THEN kw.title[1]
                             ELSE task.description,
             category |-> IF supplied("category") THEN kw.category[1]
                          ELSE task.category,
             due_date |-> IF date.ok THEN date.date ELSE task.due_date,
             priority |-> IF date.ok /\ hasPriority THEN kw.priority[1]
                          ELSE task.priority,
             status |-> task.status]]

\* Task.update: the assignments are made in the order of the source, so a
\* due date that does not parse raises after title, description and category
\* were assigned, and before due_date and priority are.  A keyword is None or
\* Some(value); an empty value counts as not supplied.
update(task, kw) ==
    LET supplied(f) == kw[f] # None /\ kw[f][1] # EmptyStr
        hasDate == kw.due_date # None /\ kw.due_date[1] # EmptyDate
        date == IF hasDate THEN validate_and_format_date(kw.due_date[1])
                ELSE [ok |-> TRUE, date |-> task.due_date]
        hasPriority == kw.priority # None /\ Truthy(kw.priority[1])
    IN  [ok |-> date.ok,
         task |->
            [id |-> task.id,
             title |-> IF supplied("title") THEN kw.title[1] ELSE task.title,
             description |-> IF supplied("description") THEN kw.description[1]
                             ELSE task.description,
             category |-> IF supplied("category") THEN kw.category[1]
                          ELSE task.category,
             due_date |-> IF date.ok THEN date.date ELSE task.due_date,
             priority |-> IF date.ok /\ hasPriority THEN kw.priority[1]
                          ELSE task.priority,
             status |-> task.status]]

\* Task.to_dict: self.priority.value exists only on an Enum member
\* (AttributeError on a bare int)
to_dict(task) ==
    [ok |-> task.priority.enum,
     dict |-> [id |-> task.id, title |-> task.title,
               description |-> task.description, category |-> task.category,
               due_date |-> task.due_date, priority |-> task.priority.value,
               status |-> task.status]]

\* Task.from_dict: Priority(task_data["priority"]) and the constructor, which
\* parses the stored due date again
from_dict(task_data) ==
    LET p == PriorityByValue(task_data.priority)
        t == NewTask(task_data.id, task_data.title, task_data.description,
                     task_data.category, task_data.due_date, p.member,
                     task_data.status)
    IN  [ok |-> p.ok /\ t.ok, task |-> t.task]

(***************************************************************************)
(* The files.  Opening a file for writing truncates it, so a save that     *)
(* raises while the list of dicts is built leaves an empty file behind.    *)
(***************************************************************************)
Absent == [kind |-> "absent", data |-> << >>]
Truncated == [kind |-> "empty", data |-> << >>]
Json(data) == [kind |-> "json", data |-> data]

\* TaskManager.save_tasks: the new content of the tasks file and the error
save_tasks(ts) ==
    IF \A i \in 1..Len(ts) : to_dict(ts[i]).ok
    THEN [err |-> "none", file |-> Json([i \in 1..Len(ts) |-> to_dict(ts[i]).dict])]
    ELSE [err |-> "AttributeError", file |-> Truncated]

\* TaskManager.load_tasks: no file gives the empty list, an empty file is no
\* JSON document
load_tasks(file) ==
    IF file.kind = "absent" THEN [tasks |-> << >>, err |-> "none"]
    ELSE IF file.kind = "empty" THEN [tasks |-> << >>, err |-> "JSONDecodeError"]
    ELSE IF \A i \in 1..Len(file.data) : from_dict(file.data[i]).ok
    THEN [tasks |-> [i \in 1..Len(file.data) |-> from_dict(file.data[i]).task],
          err |-> "none"]
    ELSE [tasks |-> << >>, err |-> "ValueError"]

Ids(ts) == {ts[i].id : i \in 1..Len(ts)}

MaxOf(S) == IF S = {} THEN 0 ELSE CHOOSE x \in S : \A y \in S : y <= x

\* __get_next_id that derives the id from the held tasks only
get_next_id_from_tasks(opts, ts) == MaxOf(Ids(ts)) + 1

\* TaskManager.__get_next_id: the id to hand out; the counter is then set to
\* one more and written to the options file
get_next_id(opts, ts) == IF opts = 0 THEN MaxOf(Ids(ts)) + 1 ELSE opts

\* the position of the first task with that id, 0 when there is none
IndexOf(ts, task_id) ==
    IF \E i \in 1..Len(ts) : ts[i].id = task_id
    THEN CHOOSE i \in 1..Len(ts) :
             ts[i].id = task_id /\ \A j \in 1..(i - 1) : ts[j].id # task_id
    ELSE 0

\* TaskManager.get_task
get_task(ts, task_id) ==
    LET i == IndexOf(ts, task_id)
    IN  IF i = 0 THEN [task |-> << >>, err |-> "Task not found"]
        ELSE [task |-> <<ts[i]>>, err |-> "none"]

(***************************************************************************)
(* TaskManager.get_tasks.                                                  *)
(***************************************************************************)
UpperCase == <<"A", "B", "C", "D", "E", "F", "G", "H", "I", "J", "K", "L", "M",
               "N", "O", "P", "Q", "R", "S", "T", "U", "V", "W", "X", "Y", "Z">>
LowerCase == <<"a", "b", "c", "d", "e", "f", "g", "h", "i", "j", "k", "l", "m",
               "n", "o", "p", "q", "r", "s", "t", "u", "v", "w", "x", "y", "z">>

\* str.lower
lower(s) ==
    [i \in 1..Len(s) |->
        IF \E k \in 1..Len(UpperCase) : UpperCase[k] = s[i]
        THEN LowerCase[CHOOSE k \in 1..Len(UpperCase) : UpperCase[k] = s[i]]
        ELSE s[i]]

\* str.split(): the maximal runs of characters that are not blanks
RECURSIVE SplitFrom(_, _, _)
SplitFrom(s, i, word) ==
    IF i > Len(s) THEN (IF word = EmptyStr THEN << >> ELSE <<word>>)
    ELSE IF s[i] = " "
    THEN (IF word = EmptyStr THEN << >> ELSE <<word>>) \o SplitFrom(s, i + 1, EmptyStr)
    ELSE SplitFrom(s, i + 1, Append(word, s[i]))

split(s) == SplitFrom(s, 1, EmptyStr)

\* x in list
InList(x, list) == \E i \in 1..Len(list) : list[i] = x

\* sub in s, for strings
InStr(sub, s) ==
    \E i \in 0..(Len(s) - Len(sub)) : SubSeq(s, i + 1, i + Len(sub)) = sub

\* the condition of get_tasks with the status compared whenever it is called,
\* so that no status selects nothing
Selected_status_compared(task, keywords, categories, status) ==
    /\ \/ keywords = None
       \/ keywords[1] = << >>
       \/ \E k \in 1..Len(keywords[1]) :
              InList(lower(keywords[1][k]), split(lower(task.title)))
    /\ \/ categories = None
       \/ categories[1] = << >>
       \/ \E k \in 1..Len(categories[1]) :
              InStr(lower(categories[1][k]), lower(task.category))
    /\ status # None
    /\ task.status = status[1]

\* the condition of the comprehension of get_tasks; keywords and categories
\* are None or Some(list), status is None or Some(boolean)
Selected(task, keywords, categories, status) ==
    /\ \/ keywords = None
       \/ keywords[1] = << >>
       \/ \E k \in 1..Len(keywords[1]) :
              InList(lower(keywords[1][k]), split(lower(task.title)))
    /\ \/ categories = None
       \/ categories[1] = << >>
       \/ \E k \in 1..Len(categories[1]) :
              InStr(lower(categories[1][k]), lower(task.category))
    /\ \/ status = None
       \/ ~status[1]
       \/ task.status = status[1]

get_tasks(ts, keywords, categories, status) ==
    SelectSeq(ts, LAMBDA task : Selected(task, keywords, categories, status))

(***************************************************************************)
(* The inputs that are tried.                                              *)
(***************************************************************************)
Categories == {Work, Home}
ValidIso == DateStr("-", 2003, 12, 28)
SwapIso == DateStr("-", 2004, 3, 5)
BadIso == DateStr("-", 2003, 31, 31)

TaskIds == 1..MaxId

NoArgs == << >>

Called(op, err, id, args, removed) ==
    [id |-> id, err |-> err, op |-> op, args |-> args, removed |-> removed]

(***************************************************************************)
(* The operations of TaskManager.                                          *)
(***************************************************************************)
\* TaskManager.add_task
AddTask(title, description, category, due_date, priority, status) ==
    LET args == [title |-> title, description |-> description,
                 category |-> category, due_date |-> due_date,
                 priority |-> priority, status |-> status]
        priority_enum == PriorityByValue(priority)
        id == get_next_id(options, tasks)
        new == NewTask(id, title, description, category, due_date,
                       priority_enum.member, status)
        saved == save_tasks(Append(tasks, new.task))
    IN  IF \/ title = EmptyStr \/ description = EmptyStr \/ category = EmptyStr
           \/ due_date = EmptyDate \/ priority = 0
        THEN /\ last' = Called("add_task", "All arguments must be not empty",
                               0, args, 0)
             /\ UNCHANGED <<tasks, options, tasks_file, options_file, issued, probe>>
        ELSE IF ~priority_enum.ok
        THEN /\ last' = Called("add_task",
                               "Invalid priority. Priority must be one of 1, 2 or 3",
                               0, args, 0)
             /\ UNCHANGED <<tasks, options, tasks_file, options_file, issued, probe>>
        ELSE /\ id <= MaxId
             /\ options' = id + 1
             /\ options_file' = id + 1
             /\ IF ~new.ok
                THEN /\ last' = Called("add_task", "Invalid date", 0, args, 0)
                     /\ UNCHANGED <<tasks, tasks_file, issued>>
                ELSE /\ tasks' = Append(tasks, new.task)
                     /\ tasks_file' = saved.file
                     /\ issued' = IF saved.err = "none" THEN issued \cup {id}
                                  ELSE issued
                     /\ last' = Called("add_task", saved.err, id, args, 0)
             /\ UNCHANGED probe

\* delete_task with the comparison inverted
without_id_inverted(ts, task_id) == SelectSeq(ts, LAMBDA task : task.id = task_id)

\* delete_task, the list kept for a task id
without_id(ts, task_id) == SelectSeq(ts, LAMBDA task : task.id # task_id)

\* delete_task, the list kept for a category
without_category(ts, category) ==
    SelectSeq(ts, LAMBDA task : task.category # category)

\* TaskManager.delete_task; task_id and category are None or Some(value)
DeleteTask(task_id, category) ==
    LET args == [category |-> category, task_id |-> task_id]
        byId == task_id # None /\ task_id[1] # 0
        byCategory == category # None /\ category[1] # EmptyStr
        kept == IF byId THEN without_id(tasks, task_id[1])
                ELSE without_category(tasks, category[1])
        saved == save_tasks(kept)
    IN  IF ~byId /\ ~byCategory
        THEN /\ last' = Called("delete_task",
                               "Task id or category must be provided", 0, args, 0)
             /\ UNCHANGED <<tasks, options, tasks_file, options_file, issued, probe>>
        ELSE /\ tasks' = kept
             /\ tasks_file' = saved.file
             /\ last' = Called("delete_task", saved.err,
                               IF byId THEN task_id[1] ELSE 0, args,
                               Len(tasks) - Len(kept))
             /\ UNCHANGED <<options, options_file, issued, probe>>

\* TaskManager.update_task; kw holds the keyword arguments.  Task.update
\* changes the task in place, so what it assigned before raising stays in
\* memory, and save_tasks is then not reached
UpdateTask(task_id, kw) ==
    \E i \in {IndexOf(tasks, task_id)} :
        IF i = 0
        THEN /\ last' = Called("update_task", "Task not found", task_id, kw, 0)
             /\ UNCHANGED <<tasks, options, tasks_file, options_file, issued, probe>>
        ELSE \E updated \in {update(tasks[i], kw)} :
             \E ts \in {[tasks EXCEPT ![i] = updated.task]} :
             \E saved \in {save_tasks(ts)} :
                /\ tasks' = ts
                /\ IF ~updated.ok
                   THEN /\ last' = Called("update_task", "Invalid date",
                                          task_id, kw, 0)
                        /\ UNCHANGED tasks_file
                   ELSE /\ tasks_file' = saved.file
                        /\ last' = Called("update_task", saved.err, task_id, kw, 0)
                /\ UNCHANGED <<options, options_file, issued, probe>>

\* TaskManager.complete_task
CompleteTask(task_id) ==
    LET i == IndexOf(tasks, task_id)
        ts == [tasks EXCEPT ![i] = complete(tasks[i])]
        saved == save_tasks(ts)
    IN  IF i = 0
        THEN /\ last' = Called("complete_task", "Task not found", task_id, NoArgs, 0)
             /\ UNCHANGED <<tasks, options, tasks_file, options_file, issued, probe>>
        ELSE /\ tasks' = ts
             /\ tasks_file' = saved.file
             /\ last' = Called("complete_task", saved.err, task_id, NoArgs, 0)
             /\ UNCHANGED <<options, options_file, issued, probe>>

\* TaskManager.__init__ over the same two files: a new store replaces the old
\* one, unless load_tasks raises and no store is constructed
Reload ==
    LET loaded == load_tasks(tasks_file)
    IN  /\ last' = Called("init", loaded.err, 0, NoArgs, 0)
        /\ IF loaded.err = "none"
           THEN /\ tasks' = loaded.tasks
                /\ options' = options_file
           ELSE UNCHANGED <<tasks, options>>
        /\ UNCHANGED <<tasks_file, options_file, issued, probe>>

NoProbe == [input |-> EmptyDate, out |-> << >>]

\* a first TaskManager in a directory that holds neither file
Init ==
    /\ tasks = << >>
    /\ options = 0
    /\ tasks_file = Absent
    /\ options_file = 0
    /\ issued = {}
    /\ last = Called("init", "none", 0, NoArgs, 0)
    /\ probe = NoProbe

\* the calls of add_task that are tried
AddStep ==
    \E title \in {Task1}, category \in Categories,
       due_date \in {ValidIso, SwapIso, BadIso}, priority \in {0, 3, 4},
       status \in BOOLEAN :
        AddTask(title, Desc1, category, due_date, priority, status)

\* the calls of delete_task that are tried
DeleteStep ==
    \E task_id \in {None} \cup {Some(i) : i \in 0..MaxId},
       category \in {None} \cup {Some(c) : c \in Categories} :
        DeleteTask(task_id, category)

\* the calls of complete_task that are tried
CompleteStep == \E task_id \in TaskIds : CompleteTask(task_id)

Next == AddStep \/ DeleteStep \/ CompleteStep \/ Reload

Spec == Init /\ [][Next]_vars

(***************************************************************************)
(* The store under update_task: tasks are added with one content and then  *)
(* updated with every combination of keyword arguments.                    *)
(***************************************************************************)
AddDone == \E status \in {TRUE} : AddTask(Task1, Desc1, Work, ValidIso, 3, status)

UpdateStep ==
    \E task_id \in TaskIds,
       t \in {None, Some(Task2), Some(EmptyStr)},
       d \in {None, Some(Desc2)},
       c \in {None, Some(Home)},
       due \in {None, Some(SwapIso)},
       p \in {None, Some(MEDIUM)} :
        UpdateTask(task_id, [title |-> t, description |-> d, category |-> c,
                             due_date |-> due, priority |-> p])

NextUpdate == AddDone \/ UpdateStep

SpecUpdate == Init /\ [][NextUpdate]_vars

(***************************************************************************)
(* The store under calls of update_task that raise: a due date that does   *)
(* not parse, and a priority that is an int and no member of Priority (the *)
(* command line passes the priority on as it was typed).                   *)
(***************************************************************************)
UpdateBadStep ==
    \E task_id \in TaskIds,
       t \in {None, Some(Task2)},
       due \in {None, Some(BadIso)},
       p \in {None, Some(MEDIUM), Some(Raw(2)), Some(Raw(4))} :
        UpdateTask(task_id, [title |-> t, description |-> None, category |-> None,
                             due_date |-> due, priority |-> p])

AddOne ==
    \E title \in {Task1, EmptyStr} : AddTask(title, Desc1, Work, ValidIso, 3, FALSE)

DeleteById == \E task_id \in TaskIds : DeleteTask(Some(task_id), None)

NextFail == AddOne \/ UpdateBadStep \/ CompleteStep \/ DeleteById \/ Reload

SpecFail == Init /\ [][NextFail]_vars

(***************************************************************************)
(* The store under calls of all four operations that change it, none of    *)
(* which raises out of save_tasks: tasks are added not completed and with  *)
(* one content, and update_task replaces the title and the description.    *)
(***************************************************************************)
UpdateTextStep ==
    \E task_id \in TaskIds,
       t \in {None, Some(Task2)},
       d \in {None, Some(Desc2)} :
        UpdateTask(task_id, [title |-> t, description |-> d, category |-> None,
                             due_date |-> None, priority |-> None])

NextOps == AddOne \/ UpdateTextStep \/ CompleteStep \/ DeleteById \/ Reload

SpecOps == Init /\ [][NextOps]_vars

(***************************************************************************)
(* validate_and_format_date on its own: a date string is normalized, and   *)
(* the result is normalized again.                                         *)
(***************************************************************************)
DateInputs ==
    {DateStr("-", y, m, d) : y \in MinYear..MaxYear, m \in 1..13, d \in 1..31}
    \cup {DateStr(".", a, b, y) : a \in 1..31, b \in 1..13, y \in MinYear..MaxYear}

InitDate ==
    /\ tasks = << >>
    /\ options = 0
    /\ tasks_file = Absent
    /\ options_file = 0
    /\ issued = {}
    /\ last = Called("init", "none", 0, NoArgs, 0)
    /\ probe \in {[input |-> s, out |-> << >>] : s \in DateInputs}

\* one more call of validate_and_format_date, on the input and then on what
\* the call before returned; nothing follows a call that raised
Normalize ==
    LET arg == IF probe.out = << >> THEN probe.input
               ELSE probe.out[Len(probe.out)].date
    IN  /\ Len(probe.out) < 2
        /\ IF probe.out = << >> THEN TRUE ELSE probe.out[Len(probe.out)].ok
        /\ probe' = [probe EXCEPT !.out = Append(@, validate_and_format_date(arg))]
        /\ UNCHANGED <<tasks, options, tasks_file, options_file, issued, last>>

SpecDate == InitDate /\ [][Normalize]_vars

(***************************************************************************)
(* Properties.                                                             *)
(***************************************************************************)
Succeeded(op) == last.op = op /\ last.err = "none"

\* DD.MM.YYYY of a date written YYYY-MM-DD
Canonical(iso) == DateStr(".", iso.n[3], iso.n[2], iso.n[1])

\* C1: every id returned by a successful add_task is greater than every id
\* returned before (whatever was deleted, whichever add_task failed and
\* however often the store was loaded again in between), and is the id of no
\* task held when add_task is called.
C1_FreshIds ==
    [][(last'.op = "add_task" /\ last'.err = "none")
          => /\ \A i \in issued : last'.id > i
             /\ last'.id \notin Ids(tasks)
             /\ issued' = issued \cup {last'.id}]_vars

\* an id is handed out after the task with the only earlier id was deleted
C1_Witness ==
    /\ Succeeded("add_task")
    /\ issued = {1, 2}
    /\ Ids(tasks) = {2}

\* the collection as it would be read from the tasks file
FileTasks == IF tasks_file.kind = "json" THEN tasks_file.data ELSE << >>

\* C2: after every call of add_task, delete_task, update_task or
\* complete_task, returning or raising, the serialization of the tasks in
\* memory is the content of the tasks file (no file: the empty collection).
C2_MemoryIsFile ==
    last.op \in {"add_task", "delete_task", "update_task", "complete_task"}
        => /\ tasks_file.kind # "empty"
           /\ save_tasks(tasks).err = "none"
           /\ save_tasks(tasks).file.data = FileTasks

\* C3: loading what save_tasks writes for the tasks in memory gives the same
\* tasks in the same order, equal in every field.
C3_ReloadRoundTrip ==
    save_tasks(tasks).err = "none"
        => load_tasks(save_tasks(tasks).file) = [tasks |-> tasks, err |-> "none"]

\* C4: normalizing the normalization of a valid date string gives it again.
C4_Idempotent ==
    (Len(probe.out) = 2 /\ probe.out[1].ok) => probe.out[2] = probe.out[1]

\* C5: get_tasks with the status alone returns the tasks of that status, in
\* store order, for the status true and for the status false.
C5_StatusFilter ==
    \A status \in BOOLEAN :
        get_tasks(tasks, None, None, Some(status))
            = SelectSeq(tasks, LAMBDA task : task.status = status)

\* C6: the priority of every task in the collection is HIGH, MEDIUM or LOW.
C6_PriorityIsMember ==
    \A i \in 1..Len(tasks) : tasks[i].priority \in PriorityMembers

\* C7: after a successful add_task, get_task of the returned id gives a task
\* with that id, the title, description, category and status that were
\* passed, the due date in DD.MM.YYYY form and the Priority of the integer.
C7_AddThenGet ==
    Succeeded("add_task")
        => LET got == get_task(tasks, last.id)
           IN  /\ got.err = "none"
               /\ got.task[1].id = last.id
               /\ got.task[1].title = last.args.title
               /\ got.task[1].description = last.args.description
               /\ got.task[1].category = last.args.category
               /\ got.task[1].due_date = Canonical(last.args.due_date)
               /\ got.task[1].priority.enum
               /\ got.task[1].priority.value = last.args.priority
               /\ got.task[1].status = last.args.status

\* a second task was added, completed from the start
C7_Witness ==
    /\ Succeeded("add_task")
    /\ Len(tasks) = 2
    /\ last.id = 2
    /\ last.args.status
    /\ last.args.due_date = SwapIso

\* C8: delete_task of the id of a held task leaves no task with that id:
\* get_task of it fails with "Task not found" and get_tasks() holds none; and
\* an id that was returned and is held no more is never held again.
C8_DeletedIsGone ==
    [][/\ (last'.op = "delete_task" /\ last'.id \in Ids(tasks))
            => /\ get_task(tasks', last'.id).err = "Task not found"
               /\ last'.id \notin Ids(get_tasks(tasks', None, None, None))
       /\ \A id \in issued \ Ids(tasks) : id \notin Ids(tasks')]_vars

\* one of two tasks was deleted by its id
C8_Witness ==
    /\ last.op = "delete_task"
    /\ last.id # 0
    /\ last.removed = 1
    /\ Len(tasks) = 1

\* C9: add_task with no empty string and an integer priority other than 1, 2
\* and 3 raises "Invalid priority. Priority must be one of 1, 2 or 3" and
\* appends nothing.
C9_InvalidPriority ==
    [][(/\ last'.op = "add_task"
        /\ last'.args.title # EmptyStr
        /\ last'.args.description # EmptyStr
        /\ last'.args.category # EmptyStr
        /\ last'.args.due_date # EmptyDate
        /\ last'.args.priority \notin {1, 2, 3})
          => /\ last'.err = "Invalid priority. Priority must be one of 1, 2 or 3"
             /\ tasks' = tasks]_vars

\* the value of a keyword argument, when it was supplied and is not empty
Given(kw, f, empty) == kw[f] # None /\ kw[f][1] # empty

\* C10: a successful update_task changes, in the task of that id, the fields
\* supplied with a value that is not empty (the due date in its DD.MM.YYYY
\* form) and nothing else: the other fields, the id and the status stay,
\* and so do the other tasks and the order.
C10_UpdateFrame ==
    [][(last'.op = "update_task" /\ last'.err = "none")
          => LET kw == last'.args
             IN  /\ Len(tasks') = Len(tasks)
                 /\ \A j \in 1..Len(tasks) :
                       IF tasks[j].id # last'.id
                       THEN tasks'[j] = tasks[j]
                       ELSE /\ tasks'[j].id = tasks[j].id
                            /\ tasks'[j].status = tasks[j].status
                            /\ tasks'[j].title =
                                 IF Given(kw, "title", EmptyStr)
                                 THEN kw.title[1] ELSE tasks[j].title
                            /\ tasks'[j].description =
                                 IF Given(kw, "description", EmptyStr)
                                 THEN kw.description[1] ELSE tasks[j].description
                            /\ tasks'[j].category =
                                 IF Given(kw, "category", EmptyStr)
                                 THEN kw.category[1] ELSE tasks[j].category
                            /\ tasks'[j].due_date =
                                 IF Given(kw, "due_date", EmptyDate)
                                 THEN Canonical(kw.due_date[1])
                                 ELSE tasks[j].due_date
                            /\ tasks'[j].priority =
                                 IF kw.priority # None /\ Truthy(kw.priority[1])
                                 THEN kw.priority[1] ELSE tasks[j].priority]_vars

\* the second of two tasks got a new title and a new due date, and kept the
\* rest
C10_Witness ==
    /\ Succeeded("update_task")
    /\ Len(tasks) = 2
    /\ last.id = 2
    /\ last.args.title = Some(Task2)
    /\ last.args.description = None
    /\ last.args.due_date = Some(SwapIso)
    /\ tasks[2].title = Task2
    /\ tasks[2].description = Desc1
    /\ tasks[1].title = Task1

\* the title holds one of the keywords as a substring, whatever the case
TitleContains(task, keywords) ==
    \E k \in 1..Len(keywords) : InStr(lower(keywords[k]), lower(task.title))

\* C11: get_tasks(keywords=K) returns the tasks whose title contains at
\* least one keyword of K, case ignored, in the order of the collection; so
\* the keyword "Task 1" returns the tasks titled "Task 1" and the keyword
\* "Task 2" does not.
C11_KeywordInTitle ==
    \A keywords \in {<<Task1>>, <<Task2>>} :
        get_tasks(tasks, Some(keywords), None, None)
            = SelectSeq(tasks, LAMBDA task : TitleContains(task, keywords))

\* the task is the one, or one of those, that the selectors of a delete_task
\* call name
Matches(task, args) ==
    IF args.task_id # None THEN task.id = args.task_id[1]
    ELSE task.category = args.category[1]

\* C12: a delete_task call with exactly one selector raises nothing and
\* leaves the collection without the tasks that match the selector, the
\* other tasks as they were and in their order; so a selector that matches
\* no task leaves the collection as it was.
C12_DeleteExactly ==
    [][(/\ last'.op = "delete_task"
        /\ (last'.args.task_id = None) # (last'.args.category = None))
          => /\ last'.err = "none"
             /\ tasks' = SelectSeq(tasks,
                              LAMBDA task : ~Matches(task, last'.args))]_vars

\* C13: complete_task with an id that a task holds sets the status of that
\* task, changes no other field of any task, and changes nothing at all, in
\* the collection and in the tasks file, when it is called again next with
\* the same id; with an id that no task holds it raises "Task not found" and
\* changes nothing.
C13_CompleteIdempotent ==
    [][last'.op = "complete_task"
          => IF last'.id \in Ids(tasks)
             THEN /\ last'.err # "Task not found"
                  /\ Len(tasks') = Len(tasks)
                  /\ \A j \in 1..Len(tasks) :
                        tasks'[j] = IF tasks[j].id = last'.id
                                    THEN [tasks[j] EXCEPT !.status = TRUE]
                                    ELSE tasks[j]
                  /\ (last.op = "complete_task" /\ last.id = last'.id)
                        => tasks' = tasks /\ tasks_file' = tasks_file
             ELSE /\ last'.err = "Task not found"
                  /\ tasks' = tasks
                  /\ tasks_file' = tasks_file]_vars

\* the second of two tasks was completed, in memory and in the tasks file,
\* and the first was not
C13_Witness ==
    /\ Succeeded("complete_task")
    /\ last.id = 2
    /\ Len(tasks) = 2
    /\ ~tasks[1].status
    /\ tasks[2].status
    /\ tasks_file = save_tasks(tasks).file

\* C14: whatever add_task, delete_task, update_task and complete_task calls
\* were made, get_tasks() without a filter returns the whole collection, and
\* the tasks stand in it once each and in the order in which they were
\* added: by ascending id, every id being greater than the ids handed out
\* before it.
C14_AllInOrder ==
    /\ get_tasks(tasks, None, None, None) = tasks
    /\ \A i, j \in 1..Len(tasks) : i < j => tasks[i].id < tasks[j].id

\* two tasks after the first was completed and the second got a new title:
\* get_tasks() returns the first and then the second
C14_Witness ==
    /\ Succeeded("update_task")
    /\ Len(get_tasks(tasks, None, None, None)) = 2
    /\ get_tasks(tasks, None, None, None)[1].id = 1
    /\ get_tasks(tasks, None, None, None)[1].status
    /\ get_tasks(tasks, None, None, None)[2].id = 2
    /\ get_tasks(tasks, None, None, None)[2].title = Task2

\* C15: an update_task call that raises, "Task not found" or "Invalid date",
\* leaves the collection in memory and the tasks file as they were, whichever
\* other fields were supplied in the call.
C15_FailedUpdateChangesNothing ==
    [][(/\ last'.op = "update_task"
        /\ last'.err \in {"Task not found", "Invalid date"})
          => tasks' = tasks /\ tasks_file' = tasks_file]_vars

====
